---------------------------- MODULE Spec2Model ----------------------------
(***************************************************************************)
(* Model of the climate-forecast core of app.py: the module-level load of  *)
(* the .pkl store, pronosticar_clima, calcular_humedad_relativa and the    *)
(* description functions.                                                  *)
(*                                                                         *)
(* Numbers: Python floats are modelled by exact rationals [n, d] (d > 0,   *)
(* reduced), so rounding of the last bits of a float is below the model's  *)
(* resolution.  Strings that the code parses or formats (fecha, hora, the  *)
(* store keys) are sequences of one-character strings.                     *)
(***************************************************************************)
EXTENDS Integers, Sequences, FiniteSets, TLC

VARIABLES
    fase,              \* position of the process: module import, serving or dead
    archivo,           \* datos_climaticos_completos.pkl on disk
    agente_climatico,  \* the global of app.py:24 / app.py:47
    llamada,           \* the call being answered (function, arguments, outcome)
    hilos              \* the locals of each server thread inside pronosticar_clima

vars == <<fase, archivo, agente_climatico, llamada, hilos>>

-----------------------------------------------------------------------------
(* Bounds of the model.                                                    *)

\* number of server threads that answer requests at the same time
MaxHilos == 2
\* number of profiles of values over the years offered per variable
MaxPerfil == 3
\* largest number of leading years 2015.. that a store covers contiguously
MaxPrefijo == 5

-----------------------------------------------------------------------------
(* Exact rationals standing for Python floats.                             *)

Abs(x) == IF x < 0 THEN -x ELSE x

RECURSIVE Gcd(_, _)
Gcd(a, b) == IF b = 0 THEN a ELSE Gcd(b, a % b)

Mcd(a, b) == Gcd(Abs(a), Abs(b))

\* the rational n/d in lowest terms with a positive denominator (d # 0)
Rac(n, d) ==
    LET g == Mcd(n, d)
        s == IF d < 0 THEN -1 ELSE 1
    IN  [n |-> (s * n) \div g, d |-> (s * d) \div g]

Ent(k) == [n |-> k, d |-> 1]

RSuma(a, b) ==
    LET g == Mcd(a.d, b.d)
    IN  Rac(a.n * (b.d \div g) + b.n * (a.d \div g), (a.d \div g) * b.d)

RNeg(a) == [n |-> -a.n, d |-> a.d]

RResta(a, b) == RSuma(a, RNeg(b))

\* product with cross-cancellation, so that intermediate integers stay small
RMul(a, b) ==
    LET g1 == Mcd(a.n, b.d)
        g2 == Mcd(b.n, a.d)
        h1 == IF g1 = 0 THEN 1 ELSE g1
        h2 == IF g2 = 0 THEN 1 ELSE g2
    IN  Rac((a.n \div h1) * (b.n \div h2), (a.d \div h2) * (b.d \div h1))

\* quotient a / b for b # 0
RDiv(a, b) == RMul(a, Rac(b.d, b.n))

RMenor(a, b) == a.n * b.d < b.n * a.d

RMenorIgual(a, b) == a.n * b.d <= b.n * a.d

RECURSIVE SumaSeq(_)
SumaSeq(s) == IF s = <<>> THEN 0 ELSE Head(s) + SumaSeq(Tail(s))

RECURSIVE SumaProd(_, _)
SumaProd(s, t) ==
    IF s = <<>> THEN 0 ELSE Head(s) * Head(t) + SumaProd(Tail(s), Tail(t))

-----------------------------------------------------------------------------
(* Python values: None, a float, a str.  One record shape for all three,   *)
(* so that values of different kinds can be compared.                      *)

None == [t |-> "none", n |-> 0, d |-> 1, s |-> ""]

Num(r) == [t |-> "num", n |-> r.n, d |-> r.d, s |-> ""]

Txt(s) == [t |-> "str", n |-> 0, d |-> 1, s |-> s]

EsNone(v) == v.t = "none"

RacDe(v) == [n |-> v.n, d |-> v.d]

\* dict.get(key): the value, or None when the key is missing
Get(dict, k) == IF k \in DOMAIN dict THEN dict[k] ELSE None

-----------------------------------------------------------------------------
(* Strings as sequences of characters; str.split, strptime and strftime.   *)

Digitos == <<"0", "1", "2", "3", "4", "5", "6", "7", "8", "9">>

EsDigito(c) == \E i \in 1..10 : Digitos[i] = c

ValorDigito(c) == (CHOOSE i \in 1..10 : Digitos[i] = c) - 1

SoloDigitos(s) == \A i \in 1..Len(s) : EsDigito(s[i])

RECURSIVE ValorDe(_)
\* int() of a non-empty string of digits
ValorDe(s) ==
    IF s = <<>> THEN 0
    ELSE 10 * ValorDe(SubSeq(s, 1, Len(s) - 1)) + ValorDigito(s[Len(s)])

\* "%02d"
Pad2(k) == <<Digitos[((k \div 10) % 10) + 1], Digitos[(k % 10) + 1]>>

\* "%04d", as strftime and an f-string print a four-digit year
Pad4(k) == Pad2(k \div 100) \o Pad2(k % 100)

RECURSIVE Split(_, _)
\* str.split(sep) for a one-character sep: always at least one part
Split(s, sep) ==
    IF \A i \in 1..Len(s) : s[i] # sep THEN <<s>>
    ELSE LET i == CHOOSE j \in 1..Len(s) :
                      s[j] = sep /\ \A k \in 1..(j - 1) : s[k] # sep
         IN  <<SubSeq(s, 1, i - 1)>> \o Split(SubSeq(s, i + 1, Len(s)), sep)

\* a strptime field of one or two digits whose value lies in lo..hi
\* (%m: 1[0-2]|0[1-9]|[1-9], %d: 3[01]|[12]\d|0[1-9]|[1-9], %H: 2[0-3]|[0-1]\d|\d,
\*  %M: [0-5]\d|\d)
Campo2(s, lo, hi) ==
    /\ Len(s) \in {1, 2}
    /\ SoloDigitos(s)
    /\ ValorDe(s) \in lo..hi

Bisiesto(a) == ((a % 4) = 0 /\ (a % 100) # 0) \/ (a % 400) = 0

DiasDelMes(a, m) ==
    IF m = 2 THEN (IF Bisiesto(a) THEN 29 ELSE 28)
    ELSE IF m \in {4, 6, 9, 11} THEN 30 ELSE 31

\* datetime.strptime(texto, '%Y-%m-%d %H:%M'): the fields, or ok = FALSE for
\* the ValueError.  The blank of the format matches one or more blanks; the
\* whole text must be consumed.
Strptime(texto) ==
    LET malo   == [ok |-> FALSE, anio |-> 0, mes |-> 0, dia |-> 0, hora |-> 0, minuto |-> 0]
        trozos == Split(texto, " ")
        nt     == Len(trozos)
        f      == Split(trozos[1], "-")
        h      == Split(trozos[nt], ":")
    IN  IF nt < 2 THEN malo
        ELSE IF \E i \in 2..(nt - 1) : trozos[i] # <<>> THEN malo
        ELSE IF Len(f) # 3 \/ Len(h) # 2 THEN malo
        ELSE IF ~(Len(f[1]) = 4 /\ SoloDigitos(f[1])) THEN malo
        ELSE IF ~Campo2(f[2], 1, 12) \/ ~Campo2(f[3], 1, 31) THEN malo
        ELSE IF ~Campo2(h[1], 0, 23) \/ ~Campo2(h[2], 0, 59) THEN malo
        ELSE IF ValorDe(f[1]) < 1 THEN malo
        ELSE IF ValorDe(f[3]) > DiasDelMes(ValorDe(f[1]), ValorDe(f[2])) THEN malo
        ELSE [ok |-> TRUE, anio |-> ValorDe(f[1]), mes |-> ValorDe(f[2]),
              dia |-> ValorDe(f[3]), hora |-> ValorDe(h[1]), minuto |-> ValorDe(h[2])]

\* fecha_obj.strftime('%m-%d %H:00:00'): the minutes are not printed
MesDiaHora(f) ==
    Pad2(f.mes) \o <<"-">> \o Pad2(f.dia) \o <<" ">> \o Pad2(f.hora)
        \o <<":", "0", "0", ":", "0", "0">>

\* f"{anio}-{mes_dia_hora}"
FechaHistorica(anio, mes_dia_hora) == Pad4(anio) \o <<"-">> \o mes_dia_hora

\* app.py:73 left out: the hour is used as it comes
NormalizarHoraSinCambio(hora) == hora

\* if len(hora.split(':')) == 1: hora += ":00"
NormalizarHora(hora) ==
    IF Len(Split(hora, ":")) = 1 THEN hora \o <<":", "0", "0">> ELSE hora

\* f"{fecha} {hora}"
FechaHoraStr(fecha, hora) == fecha \o <<" ">> \o NormalizarHora(hora)

-----------------------------------------------------------------------------
(* scipy.interpolate.griddata(puntos, valores, (longitud, latitud),        *)
(* method='cubic') as the code uses it at app.py:93.                       *)

Cruz(a, b, c) == (b[1] - a[1]) * (c[2] - a[2]) - (b[2] - a[2]) * (c[1] - a[1])

\* q lies in the closed triangle a b c, which is not flat
EnTriangulo(q, a, b, c) ==
    LET o  == Cruz(a, b, c)
        s1 == Cruz(a, b, q)
        s2 == Cruz(b, c, q)
        s3 == Cruz(c, a, q)
    IN  /\ o # 0
        /\ \/ (s1 >= 0 /\ s2 >= 0 /\ s3 >= 0)
           \/ (s1 <= 0 /\ s2 <= 0 /\ s3 <= 0)

\* the Delaunay triangulation exists: three points that are not collinear
Triangulable(puntos) ==
    \E i, j, k \in 1..Len(puntos) : Cruz(puntos[i], puntos[j], puntos[k]) # 0

\* q lies in the convex hull of the points
EnEnvolvente(q, puntos) ==
    \E i, j, k \in 1..Len(puntos) : EnTriangulo(q, puntos[i], puntos[j], puntos[k])

\* The outcome of the call: a number, NaN, or the exception it raises.
\*  - values and points of different lengths: ValueError;
\*  - fewer than three points, or all collinear: QhullError (no triangulation);
\*  - a query outside the convex hull: NaN (the fill value);
\*  - a query on a sample point: that sample's value;
\*  - a query inside the hull of samples that all carry one value: that value.
\* The last case is the only interior case the stores of this model produce
\* (see Registro): the value of the cubic surface between unequal samples is
\* not modelled, and "fuera_del_modelo" marks it.
Griddata(puntos, valores, q) ==
    LET sale(tipo, v, exc) == [tipo |-> tipo, val |-> v, exc |-> exc]
    IN  IF Len(puntos) # Len(valores) THEN sale("excepcion", 0, "ValueError")
        ELSE IF ~Triangulable(puntos) THEN sale("excepcion", 0, "QhullError")
        ELSE IF ~EnEnvolvente(q, puntos) THEN sale("nan", 0, "")
        ELSE IF \E i \in 1..Len(puntos) : puntos[i] = q
             THEN sale("valor", valores[CHOOSE i \in 1..Len(puntos) : puntos[i] = q], "")
        ELSE IF \A i \in 1..Len(valores) : valores[i] = valores[1]
             THEN sale("valor", valores[1], "")
        ELSE sale("excepcion", 0, "fuera_del_modelo")

-----------------------------------------------------------------------------
(* The stores the model loads: dicts from key strings to records.          *)

\* range(2015, 2025) of app.py:88
AnioInicial == 2015
AnioFinExcl == 2025

Anios == AnioInicial..(AnioFinExcl - 1)

\* the order of the list at app.py:85
Variables == <<"temperatura", "humedad", "precipitacion">>

ConjVariables == {Variables[i] : i \in 1..Len(Variables)}

\* sample points (longitud, latitud) of a well-formed record
Triangulo == <<<<0, 0>>, <<4, 0>>, <<0, 4>>>>

\* the value a record of year y carries under profile k (k >= 1)
Perfil(k, y) ==
    LET x == y - AnioInicial
    IN  CASE k = 1 -> 10 + 2 * x
          [] k = 2 -> 10 * ((x % 3) + 1)
          [] k = 3 -> 27 - 3 * x
          [] OTHER -> (k * x * x) % 11

\* the years a store holds records for
Coberturas ==
    {AnioInicial..(AnioInicial + n - 1) : n \in 0..MaxPrefijo}
        \cup {{2016, 2019, 2024}, Anios}

Defectos == {"ninguno", "dos_puntos", "colineal", "sin_puntos", "desalineado", "sin_temperatura"}

\* the year whose record carries the defect of a store
AnioDefecto == AnioInicial + 1

\* the two hours of 1 June a store holds records for
HorasAlmacen == {7, 12}

Repetir(v, n) == [i \in 1..n |-> v]

\* The record of year y at hour h in the store described by d.  Every
\* variable's samples carry one value over the three points.
Registro(d, y, h) ==
    LET malo  == y = AnioDefecto /\ h = 12
        def   == IF malo THEN d.defecto ELSE "ninguno"
        pts   == CASE def = "dos_puntos" -> SubSeq(Triangulo, 1, 2)
                   [] def = "colineal"   -> <<<<0, 0>>, <<2, 0>>, <<4, 0>>>>
                   [] OTHER              -> Triangulo
        n     == IF def = "desalineado" THEN Len(pts) - 1 ELSE Len(pts)
        extra == IF h = 12 THEN 0 ELSE 1
        prof  == [v \in ConjVariables |->
                    IF v = "temperatura" THEN d.pt
                    ELSE IF v = "humedad" THEN d.ph ELSE d.pp]
        pres  == {v \in ConjVariables :
                    prof[v] > 0 /\ ~(def = "sin_temperatura" /\ v = "temperatura")}
        campos == pres \cup (IF def = "sin_puntos" THEN {} ELSE {"puntos"})
    IN  [c \in campos |->
            IF c = "puntos" THEN pts ELSE Repetir(Perfil(prof[c], y) + extra, n)]

ClaveDe(y, h) == FechaHistorica(y, MesDiaHora([mes |-> 6, dia |-> 1, hora |-> h]))

\* the dict of the store described by d
Almacen(d) ==
    LET claves == {ClaveDe(y, h) : y \in d.cob, h \in HorasAlmacen}
    IN  [c \in claves |->
            LET yh == CHOOSE p \in d.cob \X HorasAlmacen : ClaveDe(p[1], p[2]) = c
            IN  Registro(d, yh[1], yh[2])]

Descriptores ==
    [cob : Coberturas, pt : 0..MaxPerfil, ph : 0..1, pp : {0, 3}, defecto : Defectos]

Almacenes == {Almacen(d) : d \in Descriptores}

-----------------------------------------------------------------------------
(* pronosticar_clima, app.py:65-107.                                       *)

\* the threshold of app.py:99
UmbralTendencia == 4

\* np.mean(valores_historicos) of a non-empty list
Media(valores) == Rac(SumaSeq(valores), Len(valores))

\* np.polyfit(anios, valores, 1): slope and intercept of the least-squares
\* line, by the closed form of the normal equations (four or more distinct
\* years, so the determinant is positive)
Polyfit(anios, valores) ==
    LET n   == Len(anios)
        sx  == SumaSeq(anios)
        sy  == SumaSeq(valores)
        sxx == SumaProd(anios, anios)
        sxy == SumaProd(anios, valores)
        det == n * sxx - sx * sx
        num == n * sxy - sx * sy
        pendiente == Rac(num, det)
    IN  [pendiente  |-> pendiente,
         intercepto |-> RDiv(RResta(Ent(sy), RMul(pendiente, Ent(sx))), Ent(n))]

\* (pendiente * anio_futuro) + intercepto, app.py:103
Proyectar(recta, anio_futuro) ==
    RSuma(RMul(recta.pendiente, Ent(anio_futuro)), recta.intercepto)

\* the line of a series too short to be fitted: polyfit is not called
SinRecta == [pendiente |-> Ent(0), intercepto |-> Ent(0)]

\* pendiente, intercepto of app.py:102, when the else branch runs
Recta(valores, anios) ==
    IF Len(valores) < UmbralTendencia THEN SinRecta ELSE Polyfit(anios, valores)

\* a slip in the comparison of app.py:99: "< 3" for "< 4"
TendenciaUmbralCorto(valores, anios, anio_futuro) ==
    IF Len(valores) < UmbralTendencia - 1
    THEN (IF valores # <<>> THEN Num(Media(valores)) ELSE None)
    ELSE Num(Proyectar(Polyfit(anios, valores), anio_futuro))

\* a slip in app.py:103: the line is evaluated at the last historical year
TendenciaUltimoAnio(valores, anios, anio_futuro) ==
    IF Len(valores) < UmbralTendencia
    THEN (IF valores # <<>> THEN Num(Media(valores)) ELSE None)
    ELSE Num(Proyectar(Polyfit(anios, valores), anios[Len(anios)]))

\* a slip in app.py:100: the guard "if valores_historicos" left out, so that
\* an empty list is averaged too (a number instead of None)
TendenciaMediaDeVacio(valores, anios, anio_futuro) ==
    IF Len(valores) < UmbralTendencia
    THEN Num(Rac(SumaSeq(valores), IF valores = <<>> THEN 1 ELSE Len(valores)))
    ELSE Num(Proyectar(Polyfit(anios, valores), anio_futuro))

\* app.py:99-103: the mean of a short series, the trend of a long one
Tendencia(valores, anios, anio_futuro) ==
    IF Len(valores) < UmbralTendencia
    THEN (IF valores # <<>> THEN Num(Media(valores)) ELSE None)
    ELSE Num(Proyectar(Recta(valores, anios), anio_futuro))

\* app.py:86: the two lists start empty for every variable
ListasNuevas(previas) ==
    [valores |-> <<>>, anios |-> <<>>, claves |-> previas.claves, exc |-> ""]

\* a slip in app.py:94: the test of np.isnan left out, so that the fill value
\* of a query outside the hull enters the lists
PasoAnioSinFiltroNan(agente, variable, mes_dia_hora, q, anio, listas) ==
    LET fecha_historica_str == FechaHistorica(anio, mes_dia_hora)
        vistas == [listas EXCEPT !.claves = Append(@, fecha_historica_str)]
    IN  IF fecha_historica_str \notin DOMAIN agente THEN vistas
        ELSE LET datos_hora == agente[fecha_historica_str]
             IN  IF ~("puntos" \in DOMAIN datos_hora /\ variable \in DOMAIN datos_hora)
                 THEN vistas
                 ELSE LET g == Griddata(datos_hora["puntos"], datos_hora[variable], q)
                      IN  IF g.tipo = "excepcion" THEN [vistas EXCEPT !.exc = g.exc]
                          ELSE [vistas EXCEPT !.valores = Append(@, g.val),
                                              !.anios = Append(@, anio)]

\* app.py:89-96: one year of the inner loop; listas carries the two lists,
\* the keys looked up so far and the exception raised, if any
PasoAnio(agente, variable, mes_dia_hora, q, anio, listas) ==
    LET fecha_historica_str == FechaHistorica(anio, mes_dia_hora)
        vistas == [listas EXCEPT !.claves = Append(@, fecha_historica_str)]
    IN  IF fecha_historica_str \notin DOMAIN agente THEN vistas
        ELSE LET datos_hora == agente[fecha_historica_str]
             IN  IF ~("puntos" \in DOMAIN datos_hora /\ variable \in DOMAIN datos_hora)
                 THEN vistas
                 ELSE LET g == Griddata(datos_hora["puntos"], datos_hora[variable], q)
                      IN  CASE g.tipo = "excepcion" -> [vistas EXCEPT !.exc = g.exc]
                            [] g.tipo = "nan"       -> vistas
                            [] OTHER ->
                                 [vistas EXCEPT !.valores = Append(@, g.val),
                                                !.anios = Append(@, anio)]

RECURSIVE BucleAnios(_, _, _, _, _, _)
\* for anio in range(2015, 2025), stopped by an exception (sig is bound to
\* the lists after this year, so that each year is evaluated once)
BucleAnios(agente, variable, mes_dia_hora, q, anio, listas) ==
    IF anio >= AnioFinExcl \/ listas.exc # "" THEN listas
    ELSE CHOOSE fin \in
             {BucleAnios(agente, variable, mes_dia_hora, q, anio + 1, sig) :
                 sig \in {PasoAnio(agente, variable, mes_dia_hora, q, anio, listas)}} : TRUE

DictVacio == [k \in {} |-> None]

Poner(dict, k, v) == [c \in (DOMAIN dict) \cup {k} |-> IF c = k THEN v ELSE dict[c]]

RECURSIVE BucleVariables(_, _, _, _, _, _)
\* for variable in [...], app.py:85-105; est carries resultados, the lists
\* of every variable done and the exception that ended the loop, if any
BucleVariables(agente, mes_dia_hora, anio_futuro, q, i, est) ==
    IF i > Len(Variables) \/ est.exc # "" THEN est
    ELSE LET variable == Variables[i]
             listas   == BucleAnios(agente, variable, mes_dia_hora, q, AnioInicial,
                                    ListasNuevas(est.listas))
             sig == IF listas.exc # ""
                    THEN [est EXCEPT !.exc = listas.exc, !.listas = listas]
                    ELSE [est EXCEPT
                            !.listas = listas,
                            !.series = Poner(@, variable,
                                             [valores |-> listas.valores,
                                              anios |-> listas.anios,
                                              recta |-> Recta(listas.valores,
                                                              listas.anios)]),
                            !.resultados =
                                Poner(@, variable,
                                      Tendencia(listas.valores, listas.anios, anio_futuro))]
         IN  CHOOSE fin \in
                 {BucleVariables(agente, mes_dia_hora, anio_futuro, q, i + 1, s) :
                     s \in {sig}} : TRUE

ErrorModelo == "Modelo de datos no disponible."
ErrorFormato == "Formato de fecha/hora invalido"

\* What one call does: the dict it returns (ret), or the exception that leaves
\* it (exc # ""), and what it computed on the way: the parsed date, the keys it
\* looked up and the series of each variable.
PronosticarClima(agente, latitud, longitud, fecha, hora) ==
    LET sale(exc, ret, f, claves, series) ==
            [exc |-> exc, ret |-> ret, fecha_obj |-> f, claves |-> claves, series |-> series]
        sinfecha == [ok |-> FALSE, anio |-> 0, mes |-> 0, dia |-> 0, hora |-> 0, minuto |-> 0]
        fecha_obj == Strptime(FechaHoraStr(fecha, hora))
        fin == BucleVariables(agente.datos, MesDiaHora(fecha_obj), fecha_obj.anio,
                              <<longitud, latitud>>, 1,
                              [resultados |-> DictVacio, series |-> DictVacio, exc |-> "",
                               listas |-> [valores |-> <<>>, anios |-> <<>>,
                                           claves |-> <<>>, exc |-> ""]])
    IN  IF ~agente.cargado
        THEN sale("", [error |-> Txt(ErrorModelo)], sinfecha, <<>>, DictVacio)
        ELSE IF ~fecha_obj.ok
        THEN sale("", [error |-> Txt(ErrorFormato)], sinfecha, <<>>, DictVacio)
        ELSE IF fin.exc # ""
        THEN sale(fin.exc, DictVacio, fecha_obj, fin.listas.claves, fin.series)
        ELSE sale("", fin.resultados, fecha_obj, fin.listas.claves, fin.series)

-----------------------------------------------------------------------------
(* calcular_humedad_relativa, app.py:55-63.                                *)

\* b = 17.625 and c = 243.04, app.py:59-60
ConstB == Rac(17625, 1000)
ConstC == Rac(24304, 100)

\* fixed point with three decimals for gamma and for the value of math.exp
Escala == 1000

\* math.exp raises OverflowError above ln(max float) = 709.782..., and its
\* result underflows to 0.0 below -745.133... (both in thousandths)
ExpMaximo == 709782
ExpMinimo == -745133

\* a rational in thousandths (floor, up to the resolution of the fixed point)
EnMilesimas(g) ==
    LET entero == g.n \div g.d
        resto  == g.n % g.d
        q      == (g.d \div Escala) + 1
        d2     == g.d \div q
        n2     == resto \div q
    IN  entero * Escala + (IF d2 = 0 THEN 0 ELSE (n2 * Escala) \div d2)

RECURSIVE Taylor(_, _, _, _)
\* sum of the terms x^k / k! from term k on, x in thousandths, -1 <= x <= 0
Taylor(x, k, termino, hasta) ==
    IF k > hasta THEN 0
    ELSE termino + Taylor(x, k + 1, (termino * x) \div ((k + 1) * Escala), hasta)

RECURSIVE ExpNegativa(_)
\* e^x in thousandths for x <= 0 in thousandths: halving and squaring down to
\* [-1, 0], then the series
ExpNegativa(x) ==
    IF x < -Escala
    THEN LET h == ExpNegativa(x \div 2) IN (h * h) \div Escala
    ELSE LET e == Taylor(x, 0, Escala, 8) IN IF e < 0 THEN 0 ELSE e

\* the largest value the model keeps for 100 * e^gamma; min() of app.py:63
\* brings every value above 100 down to 100
RhTope == 1000000

\* rh = 100 * math.exp(gamma), app.py:62, gamma in thousandths
CienExp(gamma) ==
    IF gamma < 0
    THEN Rac(100 * ExpNegativa(gamma), Escala)
    ELSE LET inv == ExpNegativa(-gamma)
         IN  IF inv = 0 \/ (100 * Escala) \div inv >= RhTope THEN Ent(RhTope)
             ELSE Rac(100 * Escala, inv)

\* min(100, max(0, rh)), app.py:63
Acotar(rh) ==
    LET abajo == IF RMenor(Ent(0), rh) THEN rh ELSE Ent(0)
    IN  IF RMenor(abajo, Ent(100)) THEN abajo ELSE Ent(100)

\* gamma of app.py:61 in thousandths, for c + t # 0 and c + td # 0
Gamma(t, td) ==
    EnMilesimas(RDiv(RMul(ConstB, td), RSuma(ConstC, td)))
        - EnMilesimas(RDiv(RMul(ConstB, t), RSuma(ConstC, t)))

\* the value returned, or the exception that leaves the function
CalcularHumedadRelativa(temp_c, pto_rocio_c) ==
    LET sale(exc, ret) == [exc |-> exc, ret |-> ret]
        t     == RacDe(temp_c)
        td    == RacDe(pto_rocio_c)
        gamma == Gamma(t, td)
    IN  IF EsNone(temp_c) \/ EsNone(pto_rocio_c) THEN sale("", None)
        ELSE IF RSuma(ConstC, td).n = 0 \/ RSuma(ConstC, t).n = 0
             THEN sale("ZeroDivisionError", None)
        ELSE IF gamma > ExpMaximo THEN sale("OverflowError", None)
        ELSE IF gamma < ExpMinimo THEN sale("", Num(Acotar(Ent(0))))
        ELSE sale("", Num(Acotar(CienExp(gamma))))

-----------------------------------------------------------------------------
(* generar_descripcion_completa and generar_descripcion_corta,             *)
(* app.py:109-141.                                                         *)

\* temp < k, temp <= k/10 and the like, on a value that is a number
MenorQue(v, r) == RMenor(RacDe(v), r)

MayorQue(v, r) == RMenor(r, RacDe(v))

\* a slip in app.py:116: "temp <= 5" for "temp < 5"
DescTempLimiteInclusivo(temp) ==
    IF EsNone(temp) THEN "Temperatura no disponible"
    ELSE IF ~MayorQue(temp, Ent(5)) THEN "Muy Frio"
    ELSE IF MenorQue(temp, Ent(12)) THEN "Frio"
    ELSE IF MenorQue(temp, Ent(18)) THEN "Fresco / Templado"
    ELSE IF MenorQue(temp, Ent(24)) THEN "Calido / Agradable"
    ELSE "Caluroso"

\* app.py:115-120
DescTemp(temp) ==
    IF EsNone(temp) THEN "Temperatura no disponible"
    ELSE IF MenorQue(temp, Ent(5)) THEN "Muy Frio"
    ELSE IF ~MenorQue(temp, Ent(5)) /\ MenorQue(temp, Ent(12)) THEN "Frio"
    ELSE IF ~MenorQue(temp, Ent(12)) /\ MenorQue(temp, Ent(18)) THEN "Fresco / Templado"
    ELSE IF ~MenorQue(temp, Ent(18)) /\ MenorQue(temp, Ent(24)) THEN "Calido / Agradable"
    ELSE "Caluroso"

\* app.py:122-126
DescPrecip(precip) ==
    IF EsNone(precip) \/ MenorQue(precip, Ent(0)) THEN ""
    ELSE IF ~MayorQue(precip, Rac(1, 10)) THEN "con cielo mayormente despejado."
    ELSE IF MayorQue(precip, Rac(1, 10)) /\ ~MayorQue(precip, Ent(1))
         THEN "con posibles lloviznas."
    ELSE IF MayorQue(precip, Ent(1)) /\ ~MayorQue(precip, Ent(5))
         THEN "con probabilidad de lluvia."
    ELSE "con pronostico de lluvias intensas."

\* f"{x:.1f}": the number of tenths nearest to x, a tie going to the even
\* one (the value is exact here, so a tie is a tie)
UnDecimal(x) ==
    LET n10   == 10 * x.n
        piso  == n10 \div x.d
        resto == n10 % x.d
    IN  IF 2 * resto < x.d THEN piso
        ELSE IF 2 * resto > x.d THEN piso + 1
        ELSE IF piso % 2 = 0 THEN piso ELSE piso + 1

\* f"{x:.0f}": the nearest integer, a tie going to the even one
SinDecimal(x) ==
    LET piso  == x.n \div x.d
        resto == x.n % x.d
    IN  IF 2 * resto < x.d THEN piso
        ELSE IF 2 * resto > x.d THEN piso + 1
        ELSE IF piso % 2 = 0 THEN piso ELSE piso + 1

\* the texts the code formats: "N/A", "0", a number with one decimal (num
\* counts tenths) and a number with none
NoAplica == [forma |-> "N/A", num |-> 0]

TextoCero == [forma |-> "0", num |-> 0]

ConUnDecimal(x) == [forma |-> ".1f", num |-> UnDecimal(x)]

ConCeroDecimales(x) == [forma |-> ".0f", num |-> SinDecimal(x)]

\* app.py:128: every number of a result is a float (np.mean and np.polyfit
\* give np.float64), None is not
TempStr(temp) == IF EsNone(temp) THEN NoAplica ELSE ConUnDecimal(RacDe(temp))

\* the three parts of the text of app.py:129
GenerarDescripcionCompleta(resultados) ==
    LET temp   == Get(resultados, "temperatura")
        precip == Get(resultados, "precipitacion")
    IN  [desc_temp |-> DescTemp(temp), temp_str |-> TempStr(temp),
         desc_precip |-> DescPrecip(precip)]

\* a slip in the order of app.py:136-137: the absent temperature first
GenerarDescripcionCortaTempPrimero(resultados) ==
    LET temp   == Get(resultados, "temperatura")
        precip == Get(resultados, "precipitacion")
    IN  IF EsNone(temp) THEN "Desconocido"
        ELSE IF ~EsNone(precip) /\ MayorQue(precip, Ent(1)) THEN "Lluvioso"
        ELSE IF MayorQue(temp, Ent(24)) THEN "Caluroso"
        ELSE IF MayorQue(temp, Ent(18)) THEN "Calido"
        ELSE IF MayorQue(temp, Ent(12)) THEN "Templado"
        ELSE "Frio"

\* app.py:131-141
GenerarDescripcionCorta(resultados) ==
    LET temp   == Get(resultados, "temperatura")
        precip == Get(resultados, "precipitacion")
    IN  IF ~EsNone(precip) /\ MayorQue(precip, Ent(1)) THEN "Lluvioso"
        ELSE IF EsNone(temp) THEN "Desconocido"
        ELSE IF MayorQue(temp, Ent(24)) THEN "Caluroso"
        ELSE IF MayorQue(temp, Ent(18)) THEN "Calido"
        ELSE IF MayorQue(temp, Ent(12)) THEN "Templado"
        ELSE "Frio"

-----------------------------------------------------------------------------
(* The module-level code of app.py:24-50: download and load of the store.  *)

\* agente_climatico = None, app.py:24
AgenteNone == [cargado |-> FALSE, datos |-> DictVacio]

Agente(datos) == [cargado |-> TRUE, datos |-> datos]

\* what the file holds: nothing (zero length), bytes that are no pickle, or
\* the pickle of a store
Ausente == [existe |-> FALSE, contenido |-> "nada", datos |-> DictVacio]

Vacio == [existe |-> TRUE, contenido |-> "vacio", datos |-> DictVacio]

Corrupto == [existe |-> TRUE, contenido |-> "corrupto", datos |-> DictVacio]

Valido(datos) == [existe |-> TRUE, contenido |-> "almacen", datos |-> datos]

Archivos == {Ausente, Vacio, Corrupto} \cup {Valido(a) : a \in Almacenes}

\* joblib.load(MODEL_FILE), app.py:47: the object, or the exception raised
JoblibLoad(f) ==
    CASE ~f.existe                -> [exc |-> "FileNotFoundError", obj |-> AgenteNone]
      [] f.contenido = "vacio"    -> [exc |-> "EOFError", obj |-> AgenteNone]
      [] f.contenido = "corrupto" -> [exc |-> "UnpicklingError", obj |-> AgenteNone]
      [] OTHER                    -> [exc |-> "", obj |-> Agente(f.datos)]

\* the except clause of app.py:49
CapturadaAlCargar(exc) == exc = "FileNotFoundError"

\* what requests.get(URL) can do: raise, or hand back a body of any kind
SinRed == [existe |-> FALSE, contenido |-> "sin_red", datos |-> DictVacio]

Respuestas == {SinRed} \cup (Archivos \ {Ausente})

SinLlamada == [fn |-> "ninguna"]

\* the threads of the server that answer requests at the same time
Hilos == 1..MaxHilos

\* a thread that is in no call of pronosticar_clima
HiloEnReposo ==
    [pc |-> "reposo",
     args |-> [latitud |-> 0, longitud |-> 0, fecha |-> <<>>, hora |-> <<>>],
     fecha_obj |-> [ok |-> FALSE, anio |-> 0, mes |-> 0, dia |-> 0, hora |-> 0, minuto |-> 0],
     i |-> 0, anio |-> 0,
     listas |-> [valores |-> <<>>, anios |-> <<>>, claves |-> <<>>, exc |-> ""],
     resultados |-> DictVacio, exc |-> "", ret |-> DictVacio]

HilosEnReposo == [h \in Hilos |-> HiloEnReposo]

Init ==
    /\ fase = "importando"
    /\ archivo \in Archivos
    /\ agente_climatico = AgenteNone
    /\ llamada = SinLlamada
    /\ hilos = HilosEnReposo

\* app.py:30-35: the file is fetched when it is not there; requests.get may
\* raise (no network), and whatever body the server sends is written
VerificarModelo ==
    /\ fase = "importando"
    /\ IF archivo.existe
       THEN /\ fase' = "cargando"
            /\ UNCHANGED archivo
       ELSE \E r \in Respuestas :
                IF r = SinRed
                THEN /\ fase' = "caido"
                     /\ UNCHANGED archivo
                ELSE /\ fase' = "cargando"
                     /\ archivo' = r
    /\ UNCHANGED <<agente_climatico, llamada, hilos>>

\* app.py:38-50: pickle.load under "except Exception" changes nothing the
\* program reads later; joblib.load sets the global, or its exception is
\* caught (FileNotFoundError) or ends the import
CargarModelo ==
    /\ fase = "cargando"
    /\ LET r == JoblibLoad(archivo)
       IN  IF r.exc = ""
           THEN /\ agente_climatico' = r.obj
                /\ fase' = "servicio"
           ELSE /\ agente_climatico' = agente_climatico
                /\ fase' = IF CapturadaAlCargar(r.exc) THEN "servicio" ELSE "caido"
    /\ UNCHANGED <<archivo, llamada, hilos>>

-----------------------------------------------------------------------------
(* Calls answered once the module is imported.                             *)

FechaTxt(a, m, d) == Pad4(a) \o <<"-">> \o Pad2(m) \o <<"-">> \o Pad2(d)

\* 2020-06-01, 2030-06-01, 2023-02-29 (no such day), 2020-6-1, 2020/06/01
Fechas ==
    {FechaTxt(2020, 6, 1), FechaTxt(2030, 6, 1), FechaTxt(2023, 2, 29),
     <<"2", "0", "2", "0", "-", "6", "-", "1">>,
     <<"2", "0", "2", "0", "/", "0", "6", "/", "0", "1">>}

\* "12", "12:30", "7", "24", "12:00:00", ""
Horas ==
    {<<"1", "2">>, <<"1", "2", ":", "3", "0">>, <<"7">>, <<"2", "4">>,
     <<"1", "2", ":", "0", "0", ":", "0", "0">>, <<>>}

\* (longitud, latitud): a sample point, a point inside the triangle, a point
\* outside it
Coordenadas == {<<0, 0>>, <<1, 1>>, <<9, 9>>}

LlamarPronosticar ==
    /\ fase = "servicio"
    /\ llamada = SinLlamada
    /\ \E q \in Coordenadas, fecha \in Fechas, hora \in Horas :
          llamada' = [fn |-> "pronosticar_clima",
                      args |-> [latitud |-> q[2], longitud |-> q[1],
                                fecha |-> fecha, hora |-> hora],
                      sal |-> PronosticarClima(agente_climatico, q[2], q[1], fecha, hora)]
    /\ UNCHANGED <<fase, archivo, agente_climatico, hilos>>

\* the caller takes the outcome
Retornar ==
    /\ fase = "servicio"
    /\ llamada # SinLlamada
    /\ llamada' = SinLlamada
    /\ UNCHANGED <<fase, archivo, agente_climatico, hilos>>

\* temperatures and dew points in hundredths of a degree: around -243.04,
\* where c + t vanishes, and ordinary ones
CentesimasHumedad == {-24305, -24304, -24303, -4304, 0, 696, 2000, 3500}

ValoresHumedad == {None} \cup {Num(Rac(k, 100)) : k \in CentesimasHumedad}

LlamarHumedad ==
    /\ fase = "servicio"
    /\ llamada = SinLlamada
    /\ \E temp_c \in ValoresHumedad, pto_rocio_c \in ValoresHumedad :
          llamada' = [fn |-> "calcular_humedad_relativa",
                      args |-> [temp_c |-> temp_c, pto_rocio_c |-> pto_rocio_c],
                      sal |-> CalcularHumedadRelativa(temp_c, pto_rocio_c)]
    /\ UNCHANGED <<fase, archivo, agente_climatico, hilos>>

\* temperatures and precipitations in tenths, on both sides of every band
DecimasTemp == {-50, 49, 50, 119, 120, 121, 180, 181, 240, 241, 300}

DecimasPrecip == {-1, 0, 1, 2, 10, 11, 50, 51}

ValoresTemp == {None} \cup {Num(Rac(k, 10)) : k \in DecimasTemp}

ValoresPrecip == {None} \cup {Num(Rac(k, 10)) : k \in DecimasPrecip}

\* the dicts handed to the description functions: the three keys, one key
\* alone, no key at all, and the error object
Mapeos ==
    {[temperatura |-> t, humedad |-> None, precipitacion |-> pr] :
        t \in ValoresTemp, pr \in ValoresPrecip}
    \cup {[temperatura |-> t] : t \in ValoresTemp}
    \cup {[precipitacion |-> pr] : pr \in ValoresPrecip}
    \cup {DictVacio, [error |-> Txt(ErrorFormato)], [error |-> Txt(ErrorModelo)]}

LlamarCorta ==
    /\ fase = "servicio"
    /\ llamada = SinLlamada
    /\ \E resultados \in Mapeos :
          llamada' = [fn |-> "generar_descripcion_corta",
                      args |-> [resultados |-> resultados],
                      sal |-> [exc |-> "", ret |-> GenerarDescripcionCorta(resultados)]]
    /\ UNCHANGED <<fase, archivo, agente_climatico, hilos>>

LlamarCompleta ==
    /\ fase = "servicio"
    /\ llamada = SinLlamada
    /\ \E resultados \in Mapeos :
          llamada' = [fn |-> "generar_descripcion_completa",
                      args |-> [resultados |-> resultados],
                      sal |-> [exc |-> "", ret |-> GenerarDescripcionCompleta(resultados)]]
    /\ UNCHANGED <<fase, archivo, agente_climatico, hilos>>

-----------------------------------------------------------------------------
(* The routes built on pronosticar_clima, app.py:274-350.                  *)

\* range(24) of app.py:303
HorasDelDia == 24

\* horas = [f"{h:02d}:00" for h in range(24)], app.py:303
HorasEnPunto == [i \in 1..HorasDelDia |-> Pad2(i - 1) \o <<":", "0", "0">>]

\* request.json: a JSON object with the four fields, or a body that is no
\* object (null), on which data.get raises AttributeError
SinDatos ==
    [objeto |-> FALSE, latitude |-> 0, longitude |-> 0, date |-> <<>>, time |-> <<>>]

Datos(q, fecha, hora) ==
    [objeto |-> TRUE, latitude |-> q[2], longitude |-> q[1], date |-> fecha, time |-> hora]

Solicitudes ==
    {SinDatos} \cup {Datos(q, fecha, hora) : q \in Coordenadas, fecha \in Fechas, hora \in Horas}

\* the solicitudes of daily_chart carry no time
SolicitudesDiarias ==
    {SinDatos} \cup {Datos(q, fecha, <<>>) : q \in Coordenadas, fecha \in Fechas}

\* obtener_ubicacion_osm, app.py:143-156: whatever the service answers, or
\* the pair of the except clause; it never raises
Ubicaciones ==
    {<<"Lima", "Peru">>, <<"En el mar o sin datos", "N/A">>, <<"Error de API", "N/A">>}

\* what a route answers: the status and the JSON body, or the exception that
\* leaves the view function (Flask answers it with status 500 and no JSON)
Respuesta(status, cuerpo) == [exc |-> "", status |-> status, cuerpo |-> cuerpo]

Fallo(exc) == [exc |-> exc, status |-> 500, cuerpo |-> DictVacio]

FaltanDatos == Respuesta(400, [error |-> "Faltan datos en la solicitud."])

\* get_climate_data, app.py:274-295 (prediccion_numerica is bound to the
\* outcome of the one call of app.py:283)
GetClimateData(agente, data, ubicacion) ==
    IF ~data.objeto THEN FaltanDatos
    ELSE CHOOSE respuesta \in
             {IF prediccion_numerica.exc # "" THEN Fallo(prediccion_numerica.exc)
              ELSE Respuesta(200,
                       [departamento |-> ubicacion[1],
                        pais         |-> ubicacion[2],
                        descripcion  |-> GenerarDescripcionCompleta(prediccion_numerica.ret)]) :
                 prediccion_numerica \in
                     {PronosticarClima(agente, data.latitude, data.longitude,
                                       data.date, data.time)}} : TRUE

\* prec if prec is not None else 0, app.py:314
PrecipitacionOCero(prec) == IF EsNone(prec) THEN Num(Ent(0)) ELSE prec

\* app.py:307-314: one hour of the loop; est carries the three lists, the
\* calls made so far and the exception raised, if any
PasoHora(agente, data, hora, est) ==
    LET hecha == [est EXCEPT !.invocadas = Append(@, hora)]
    IN  CHOOSE sig \in
            {IF resultado.exc # "" THEN [hecha EXCEPT !.exc = resultado.exc]
             ELSE [hecha EXCEPT
                     !.temperaturas    = Append(@, Get(resultado.ret, "temperatura")),
                     !.puntos_rocio    = Append(@, Get(resultado.ret, "humedad")),
                     !.precipitaciones =
                         Append(@, PrecipitacionOCero(Get(resultado.ret, "precipitacion")))] :
                resultado \in
                    {PronosticarClima(agente, data.latitude, data.longitude,
                                      data.date, hora)}} : TRUE

RECURSIVE BucleHoras(_, _, _, _)
\* for hora in horas, app.py:306, stopped by an exception (sig is bound to
\* the state after hour i, so that each hour is evaluated once)
BucleHoras(agente, data, i, est) ==
    IF i > Len(HorasEnPunto) \/ est.exc # "" THEN est
    ELSE CHOOSE fin \in {BucleHoras(agente, data, i + 1, sig) :
                            sig \in {PasoHora(agente, data, HorasEnPunto[i], est)}} : TRUE

\* daily_chart, app.py:298-321: the answer and the hours pronosticar_clima was
\* called with, in the order of the calls
DailyChart(agente, data) ==
    LET ini == [temperaturas |-> <<>>, puntos_rocio |-> <<>>, precipitaciones |-> <<>>,
                invocadas |-> <<>>, exc |-> ""]
    IN  IF ~data.objeto
        THEN [resp |-> Fallo("AttributeError"), invocadas |-> <<>>]
        ELSE CHOOSE salida \in
                 {IF fin.exc # ""
                  THEN [resp |-> Fallo(fin.exc), invocadas |-> fin.invocadas]
                  ELSE [resp |-> Respuesta(200,
                                    [labels         |-> HorasEnPunto,
                                     temperatures   |-> fin.temperaturas,
                                     humidities     |-> fin.puntos_rocio,
                                     precipitations |-> fin.precipitaciones]),
                        invocadas |-> fin.invocadas] :
                     fin \in {BucleHoras(agente, data, 1, ini)}} : TRUE

\* app.py:339
PrecipitacionStr(precip_val) ==
    IF ~EsNone(precip_val) /\ MayorQue(precip_val, Ent(0))
    THEN ConUnDecimal(RacDe(precip_val)) ELSE TextoCero

\* app.py:333-350: what get_comparison_data makes of the prediction and the
\* relative humidity derived from it
CompararConHumedad(data, ubicacion, prediccion, humedad_relativa) ==
    IF humedad_relativa.exc # "" THEN Fallo(humedad_relativa.exc)
    ELSE Respuesta(200,
             [ciudad        |-> ubicacion[1],
              pais          |-> ubicacion[2],
              fecha         |-> data.date,
              hora          |-> data.time,
              pronostico    |-> GenerarDescripcionCorta(prediccion.ret),
              temp          |-> TempStr(Get(prediccion.ret, "temperatura")),
              precipitacion |-> PrecipitacionStr(Get(prediccion.ret, "precipitacion")),
              humedad       |-> IF EsNone(humedad_relativa.ret) THEN NoAplica
                                ELSE ConCeroDecimales(RacDe(humedad_relativa.ret))])

\* get_comparison_data, app.py:324-350 (prediccion and humedad_relativa are
\* bound to the outcomes of the calls of app.py:332 and app.py:333)
GetComparisonData(agente, data, ubicacion) ==
    IF ~data.objeto THEN FaltanDatos
    ELSE CHOOSE respuesta \in
             {IF prediccion.exc # "" THEN Fallo(prediccion.exc)
              ELSE CHOOSE r \in
                       {CompararConHumedad(data, ubicacion, prediccion, humedad_relativa) :
                           humedad_relativa \in
                               {CalcularHumedadRelativa(Get(prediccion.ret, "temperatura"),
                                                        Get(prediccion.ret, "humedad"))}} : TRUE :
                 prediccion \in
                     {PronosticarClima(agente, data.latitude, data.longitude,
                                       data.date, data.time)}} : TRUE

LlamarGetClimateData ==
    /\ fase = "servicio"
    /\ llamada = SinLlamada
    /\ \E data \in Solicitudes, ubicacion \in Ubicaciones :
          llamada' = [fn |-> "get_climate_data",
                      args |-> data,
                      sal |-> GetClimateData(agente_climatico, data, ubicacion)]
    /\ UNCHANGED <<fase, archivo, agente_climatico, hilos>>

LlamarDailyChart ==
    /\ fase = "servicio"
    /\ llamada = SinLlamada
    /\ \E data \in SolicitudesDiarias :
          LET d == DailyChart(agente_climatico, data)
          IN  llamada' = [fn |-> "daily_chart", args |-> data,
                          sal |-> d.resp, invocadas |-> d.invocadas]
    /\ UNCHANGED <<fase, archivo, agente_climatico, hilos>>

LlamarGetComparisonData ==
    /\ fase = "servicio"
    /\ llamada = SinLlamada
    /\ \E data \in Solicitudes, ubicacion \in Ubicaciones :
          llamada' = [fn |-> "get_comparison_data",
                      args |-> data,
                      sal |-> GetComparisonData(agente_climatico, data, ubicacion)]
    /\ UNCHANGED <<fase, archivo, agente_climatico, hilos>>

-----------------------------------------------------------------------------
(* pronosticar_clima run by several threads at once: each thread has its   *)
(* own frame (the locals of app.py:73-105) and reads the one global.  A     *)
(* step is one turn of the loop of app.py:88, so that the turns of          *)
(* different threads interleave.                                            *)

\* the queries a thread may be given
Consultas ==
    {[latitud |-> 0, longitud |-> 0, fecha |-> FechaTxt(2020, 6, 1), hora |-> <<"7">>],
     [latitud |-> 1, longitud |-> 1, fecha |-> FechaTxt(2030, 6, 1), hora |-> <<"1", "2">>],
     [latitud |-> 0, longitud |-> 0, fecha |-> FechaTxt(2023, 2, 29), hora |-> <<"7">>]}

\* a slip: valores_historicos and anios_historicos kept in module-level
\* names, so that every thread appends to the same two lists
GuardarListasGlobales(hs, h, listas) ==
    [k \in DOMAIN hs |-> [hs[k] EXCEPT !.listas = listas]]

\* valores_historicos, anios_historicos are names of the frame of the call
\* (app.py:86): an assignment reaches the thread's own lists only
GuardarListas(hs, h, listas) == [hs EXCEPT ![h].listas = listas]

\* a thread leaves the call: with the dict it returns, or with the exception
Salir(hs, h, exc, ret) == [hs EXCEPT ![h].pc = "fin", ![h].exc = exc, ![h].ret = ret]

\* a request reaches pronosticar_clima in thread h
RecibirConsulta ==
    /\ fase = "servicio"
    /\ \E h \in Hilos, consulta \in Consultas :
          /\ hilos[h].pc = "reposo"
          /\ hilos' = [hilos EXCEPT ![h] = [HiloEnReposo EXCEPT !.pc = "entrada",
                                                               !.args = consulta]]
    /\ UNCHANGED <<fase, archivo, agente_climatico, llamada>>

\* app.py:69-86: the two checks, then the first variable's empty lists
EntrarEnBucle ==
    /\ fase = "servicio"
    /\ \E h \in Hilos :
          /\ hilos[h].pc = "entrada"
          /\ LET yo        == hilos[h]
                 fecha_obj == Strptime(FechaHoraStr(yo.args.fecha, yo.args.hora))
             IN  hilos' =
                   IF ~agente_climatico.cargado
                   THEN Salir(hilos, h, "", [error |-> Txt(ErrorModelo)])
                   ELSE IF ~fecha_obj.ok
                   THEN Salir(hilos, h, "", [error |-> Txt(ErrorFormato)])
                   ELSE [GuardarListas(hilos, h, ListasNuevas(yo.listas))
                            EXCEPT ![h].pc = "bucle", ![h].fecha_obj = fecha_obj,
                                   ![h].i = 1, ![h].anio = AnioInicial]
    /\ UNCHANGED <<fase, archivo, agente_climatico, llamada>>

\* app.py:88-96: one year of the variable the thread is at
PasoDeAnio ==
    /\ fase = "servicio"
    /\ \E h \in Hilos :
          /\ hilos[h].pc = "bucle"
          /\ hilos[h].anio < AnioFinExcl
          /\ LET yo     == hilos[h]
                 listas == PasoAnio(agente_climatico.datos, Variables[yo.i],
                                    MesDiaHora(yo.fecha_obj),
                                    <<yo.args.longitud, yo.args.latitud>>,
                                    yo.anio, yo.listas)
                 hs     == GuardarListas(hilos, h, listas)
             IN  hilos' = IF listas.exc # ""
                          THEN Salir(hs, h, listas.exc, DictVacio)
                          ELSE [hs EXCEPT ![h].anio = @ + 1]
    /\ UNCHANGED <<fase, archivo, agente_climatico, llamada>>

\* app.py:99-105, then the next variable (app.py:85-86) or the return of
\* app.py:107
CerrarVariable ==
    /\ fase = "servicio"
    /\ \E h \in Hilos :
          /\ hilos[h].pc = "bucle"
          /\ hilos[h].anio = AnioFinExcl
          /\ LET yo         == hilos[h]
                 resultados == Poner(yo.resultados, Variables[yo.i],
                                     Tendencia(yo.listas.valores, yo.listas.anios,
                                               yo.fecha_obj.anio))
                 hs         == [hilos EXCEPT ![h].resultados = resultados]
             IN  hilos' = IF yo.i = Len(Variables)
                          THEN Salir(hs, h, "", resultados)
                          ELSE [GuardarListas(hs, h, ListasNuevas(yo.listas))
                                   EXCEPT ![h].i = @ + 1, ![h].anio = AnioInicial]
    /\ UNCHANGED <<fase, archivo, agente_climatico, llamada>>

\* the caller takes the outcome and the frame is gone
ResponderConsulta ==
    /\ fase = "servicio"
    /\ \E h \in Hilos :
          /\ hilos[h].pc = "fin"
          /\ hilos' = [hilos EXCEPT ![h] = HiloEnReposo]
    /\ UNCHANGED <<fase, archivo, agente_climatico, llamada>>

Next ==
    \/ VerificarModelo
    \/ CargarModelo
    \/ LlamarPronosticar
    \/ Retornar

Spec == Init /\ [][Next]_vars

\* The functions derived from a result, called in a process whose store file
\* is in place at start.
AlmacenesDerivadas ==
    {Almacen([cob |-> Anios, pt |-> 1, ph |-> 1, pp |-> 3, defecto |-> "ninguno"]),
     Almacen([cob |-> {}, pt |-> 0, ph |-> 0, pp |-> 0, defecto |-> "ninguno"])}

InitDerivadas ==
    /\ fase = "importando"
    /\ archivo \in {Valido(a) : a \in AlmacenesDerivadas}
    /\ agente_climatico = AgenteNone
    /\ llamada = SinLlamada
    /\ hilos = HilosEnReposo

NextDerivadas ==
    \/ VerificarModelo
    \/ CargarModelo
    \/ LlamarHumedad
    \/ LlamarCorta
    \/ LlamarCompleta
    \/ Retornar

SpecDerivadas == InitDerivadas /\ [][NextDerivadas]_vars

\* The routes, called in a process whose store file is in place at start: a
\* store of ten good years, one with no precipitation, one of three years, one
\* whose record of 2016 at 12:00 has two points, and one with no record.
AlmacenesRutas ==
    {Almacen([cob |-> Anios, pt |-> 1, ph |-> 1, pp |-> 3, defecto |-> "ninguno"]),
     Almacen([cob |-> Anios, pt |-> 3, ph |-> 1, pp |-> 0, defecto |-> "ninguno"]),
     Almacen([cob |-> AnioInicial..(AnioInicial + 2), pt |-> 2, ph |-> 0, pp |-> 3,
              defecto |-> "ninguno"]),
     Almacen([cob |-> Anios, pt |-> 1, ph |-> 1, pp |-> 3, defecto |-> "dos_puntos"]),
     Almacen([cob |-> {}, pt |-> 0, ph |-> 0, pp |-> 0, defecto |-> "ninguno"])}

InitRutas ==
    /\ fase = "importando"
    /\ archivo \in {Valido(a) : a \in AlmacenesRutas}
    /\ agente_climatico = AgenteNone
    /\ llamada = SinLlamada
    /\ hilos = HilosEnReposo

NextRutas ==
    \/ VerificarModelo
    \/ CargarModelo
    \/ LlamarGetClimateData
    \/ LlamarDailyChart
    \/ LlamarGetComparisonData
    \/ Retornar

SpecRutas == InitRutas /\ [][NextRutas]_vars

\* Concurrent forecast queries, in a process whose store file is in place at
\* start: ten years of records at 07:00 and 12:00, the one of 2016 at 12:00
\* with two points.
AlmacenesConcurrentes ==
    {Almacen([cob |-> Anios, pt |-> 1, ph |-> 1, pp |-> 3, defecto |-> "dos_puntos"])}

InitConcurrente ==
    /\ fase = "importando"
    /\ archivo \in {Valido(a) : a \in AlmacenesConcurrentes}
    /\ agente_climatico = AgenteNone
    /\ llamada = SinLlamada
    /\ hilos = HilosEnReposo

NextConcurrente ==
    \/ VerificarModelo
    \/ CargarModelo
    \/ RecibirConsulta
    \/ EntrarEnBucle
    \/ PasoDeAnio
    \/ CerrarVariable
    \/ ResponderConsulta

SpecConcurrente == InitConcurrente /\ [][NextConcurrente]_vars

-----------------------------------------------------------------------------
(* Claims about the trend step.                                            *)

EsPronostico == llamada.fn = "pronosticar_clima"

\* the call returned the mapping of the variables
DevolvioResultados ==
    /\ EsPronostico
    /\ llamada.sal.exc = ""
    /\ "error" \notin DOMAIN llamada.sal.ret

\* the years a query may name
AniosObjetivo == {2020, 2030, 1999}

\* C1: a variable whose series has 1, 2 or 3 values is stored as the
\* arithmetic mean of these values (len * stored = sum), and the stored value
\* is what the trend step yields for every other target year too.
C1_MediaSerieCorta ==
    DevolvioResultados =>
        \A v \in DOMAIN llamada.sal.series :
            LET ser == llamada.sal.series[v]
                r   == llamada.sal.ret[v]
            IN  Len(ser.valores) \in 1..3 =>
                    /\ r.t = "num"
                    /\ r.n * Len(ser.valores) = SumaSeq(ser.valores) * r.d
                    /\ \A a \in AniosObjetivo : Tendencia(ser.valores, ser.anios, a) = r

\* a series 10, 20, 30 queried for 2030 is stored as 20
C1_Testigo ==
    /\ DevolvioResultados
    /\ llamada.sal.fecha_obj.anio = 2030
    /\ \E v \in DOMAIN llamada.sal.series :
          /\ llamada.sal.series[v].valores = <<10, 20, 30>>
          /\ llamada.sal.ret[v] = Num(Ent(20))

RECURSIVE SumaResiduos(_, _, _, _)
\* the sum over the series of (x - x0)^k * (y - (pendiente * x + intercepto))
\* for k = 0 (peso = FALSE) or k = 1 (peso = TRUE)
SumaResiduos(anios, valores, recta, peso) ==
    IF anios = <<>> THEN Ent(0)
    ELSE LET x == Head(anios)
             r == RResta(RResta(Ent(Head(valores)), RMul(recta.pendiente, Ent(x))),
                         recta.intercepto)
             w == IF peso THEN Ent(x - AnioInicial) ELSE Ent(1)
         IN  RSuma(RMul(w, r), SumaResiduos(Tail(anios), Tail(valores), recta, peso))

\* C2: a variable whose series has four or more pairs is stored as
\* pendiente * target_year + intercepto, where (pendiente, intercepto) is the
\* least-squares line of the series: its residuals sum to zero and are
\* orthogonal to the years.  The series 10, 12, 14, 16, 18 of 2015..2019
\* queried for 2020 gives 20, above every historical value.
C2_TendenciaSerieLarga ==
    DevolvioResultados =>
        \A v \in DOMAIN llamada.sal.series :
            LET ser == llamada.sal.series[v]
                r   == llamada.sal.ret[v]
                t   == llamada.sal.fecha_obj.anio
            IN  Len(ser.valores) >= 4 =>
                    /\ r.t = "num"
                    /\ SumaResiduos(ser.anios, ser.valores, ser.recta, FALSE) = Ent(0)
                    /\ SumaResiduos(ser.anios, ser.valores, ser.recta, TRUE) = Ent(0)
                    /\ RacDe(r) = RSuma(RMul(ser.recta.pendiente, Ent(t)),
                                        ser.recta.intercepto)
                    /\ (ser.anios = <<2015, 2016, 2017, 2018, 2019>>
                          /\ ser.valores = <<10, 12, 14, 16, 18>> /\ t = 2020)
                       => r = Num(Ent(20))

\* the linear series queried for 2020 is stored as 20; a series that is not
\* linear is fitted too
C2_Testigo ==
    /\ DevolvioResultados
    /\ llamada.sal.fecha_obj.anio = 2020
    /\ \E v, w \in DOMAIN llamada.sal.series :
          /\ llamada.sal.series[v].valores = <<10, 12, 14, 16, 18>>
          /\ llamada.sal.ret[v] = Num(Ent(20))
          /\ llamada.sal.series[w].valores = <<10, 20, 30, 10, 20>>
          /\ llamada.sal.ret[w] = Num(Ent(21))

-----------------------------------------------------------------------------
(* Claims about the outcome of a forecast call.                            *)

ArgsFechaObj == Strptime(FechaHoraStr(llamada.args.fecha, llamada.args.hora))

\* the two conditions under which the code returns an error object
ErrorEsperado == ~agente_climatico.cargado \/ ~ArgsFechaObj.ok

PasaControles == EsPronostico /\ ~ErrorEsperado

\* the key of year anio for the query being answered (fecha_obj as parsed by
\* the call)
ClaveConsulta(anio) == FechaHistorica(anio, MesDiaHora(llamada.sal.fecha_obj))

\* the years whose record gives variable v a defined value at the query's
\* coordinate
AniosDefinidos(v) ==
    {anio \in Anios :
        /\ ClaveConsulta(anio) \in DOMAIN agente_climatico.datos
        /\ LET reg == agente_climatico.datos[ClaveConsulta(anio)]
           IN  /\ "puntos" \in DOMAIN reg
               /\ v \in DOMAIN reg
               /\ Griddata(reg["puntos"], reg[v],
                           <<llamada.args.longitud, llamada.args.latitud>>).tipo = "valor"}

\* C3: the call returns an error object exactly when the dataset is not
\* loaded or the date and time do not parse; then nothing was looked up and
\* no variable has an entry; in every other case it returns the mapping of the
\* three variables.
C3_ErrorSoloPorDatosOFormato ==
    EsPronostico =>
        /\ llamada.sal.exc = ""
        /\ ("error" \in DOMAIN llamada.sal.ret) <=> ErrorEsperado
        /\ ErrorEsperado =>
              /\ llamada.sal.claves = <<>>
              /\ (DOMAIN llamada.sal.ret) \cap ConjVariables = {}
        /\ ~ErrorEsperado => DOMAIN llamada.sal.ret = ConjVariables

\* the store with every variable but v taken out of every record
SoloVariable(datos, v) ==
    [c \in DOMAIN datos |->
        [k \in (DOMAIN datos[c]) \cap {"puntos", v} |-> datos[c][k]]]

\* C4: a query that passes the two checks gets an entry for each of the
\* three variables, and the entry of a variable is the one the same query
\* gets from the store stripped of the other two variables.
C4_VariablesIndependientes ==
    PasaControles =>
        /\ llamada.sal.exc = ""
        /\ DOMAIN llamada.sal.ret = ConjVariables
        /\ \A v \in ConjVariables :
              llamada.sal.ret[v] =
                  PronosticarClima(Agente(SoloVariable(agente_climatico.datos, v)),
                                   llamada.args.latitud, llamada.args.longitud,
                                   llamada.args.fecha, llamada.args.hora).ret[v]

RegistroMalFormado(anio) ==
    /\ ClaveConsulta(anio) \in DOMAIN agente_climatico.datos
    /\ LET reg == agente_climatico.datos[ClaveConsulta(anio)]
       IN  /\ "puntos" \in DOMAIN reg
           /\ \E v \in (DOMAIN reg) \cap ConjVariables :
                 Griddata(reg["puntos"], reg[v],
                          <<llamada.args.longitud, llamada.args.latitud>>).tipo = "excepcion"

EsHoraSola(hora) == \A i \in 1..Len(hora) : hora[i] # ":"

\* a key of the form YYYY-MM-DD HH:00:00
EsClaveEnPunto(c) ==
    /\ Len(c) = 19
    /\ \A i \in {1, 2, 3, 4, 6, 7, 9, 10, 12, 13} : EsDigito(c[i])
    /\ c[5] = "-" /\ c[8] = "-" /\ c[11] = " "
    /\ SubSeq(c, 14, 19) = <<":", "0", "0", ":", "0", "0">>

ClavesDe(sal) == {sal.claves[i] : i \in 1..Len(sal.claves)}

\* C6: a call with the bare hour "HH" has the outcome of the call with
\* "HH:00" on the same store, date and coordinate: the same keys looked up,
\* each of the form YYYY-MM-DD HH:00:00 (one per year 2015..2024 when the
\* call returns the mapping), and the same result.
C6_HoraSolaIgualHoraEnPunto ==
    (EsPronostico /\ EsHoraSola(llamada.args.hora)) =>
        LET otra == PronosticarClima(agente_climatico,
                                     llamada.args.latitud, llamada.args.longitud,
                                     llamada.args.fecha,
                                     llamada.args.hora \o <<":", "0", "0">>)
        IN  /\ otra.claves = llamada.sal.claves
            /\ otra.ret = llamada.sal.ret
            /\ otra.exc = llamada.sal.exc
            /\ \A c \in ClavesDe(llamada.sal) : EsClaveEnPunto(c)
            /\ DevolvioResultados =>
                  /\ Cardinality(ClavesDe(llamada.sal)) = 10
                  /\ \A anio \in Anios :
                        \E c \in ClavesDe(llamada.sal) : SubSeq(c, 1, 4) = Pad4(anio)

\* the hour "7" finds the records of 07:00:00 and gives a number
C6_Testigo ==
    /\ DevolvioResultados
    /\ llamada.args.hora = <<"7">>
    /\ llamada.sal.claves[1] = ClaveDe(2015, 7)
    /\ \E v \in ConjVariables : llamada.sal.ret[v].t = "num"

\* the record of year anio, under the query's key, has fewer than three
\* sample points
RegistroCorto(anio) ==
    /\ ClaveConsulta(anio) \in DOMAIN agente_climatico.datos
    /\ "puntos" \in DOMAIN agente_climatico.datos[ClaveConsulta(anio)]
    /\ Len(agente_climatico.datos[ClaveConsulta(anio)]["puntos"]) < 3

\* C7: a record with fewer than three sample points gives its year no value:
\* the call returns the mapping, and the year is in no variable's series.
C7_RegistroCortoSeOmite ==
    (PasaControles /\ \E anio \in Anios : RegistroCorto(anio)) =>
        /\ llamada.sal.exc = ""
        /\ DOMAIN llamada.sal.ret = ConjVariables
        /\ \A v \in DOMAIN llamada.sal.series, anio \in Anios :
              RegistroCorto(anio) =>
                  \A i \in 1..Len(llamada.sal.series[v].anios) :
                      llamada.sal.series[v].anios[i] # anio

\* C8: whatever the file holds, the import does not end in a crash; a file
\* that holds no store leaves the dataset unavailable, and every forecast call
\* then returns the dataset-unavailable error object.
C8_ArranqueTolerante ==
    /\ fase # "caido"
    /\ (fase = "servicio" /\ archivo.contenido # "almacen") => ~agente_climatico.cargado
    /\ (EsPronostico /\ ~agente_climatico.cargado) =>
          llamada.sal.ret = [error |-> Txt(ErrorModelo)]

-----------------------------------------------------------------------------
(* Claims about the derived functions.                                     *)

\* C9: calcular_humedad_relativa returns None exactly when an argument is
\* None; for two numbers it raises nothing and returns a value in [0, 100],
\* which is 100 when the two numbers are equal.
C9_HumedadAcotada ==
    llamada.fn = "calcular_humedad_relativa" =>
        LET t   == llamada.args.temp_c
            td  == llamada.args.pto_rocio_c
            ret == llamada.sal.ret
        IN  /\ llamada.sal.exc = ""
            /\ EsNone(ret) <=> (EsNone(t) \/ EsNone(td))
            /\ ~EsNone(ret) => (0 <= ret.n /\ ret.n <= 100 * ret.d)
            /\ (~EsNone(t) /\ t = td) => ret = Num(Ent(100))

\* C10: generar_descripcion_corta returns for every mapping: "Lluvioso"
\* when the precipitation is present and above 1.0, whatever the temperature;
\* otherwise "Desconocido" for an absent temperature; otherwise "Caluroso"
\* above 24, "Calido" above 18, "Templado" above 12 and "Frio" for the rest.
C10_DescripcionCorta ==
    llamada.fn = "generar_descripcion_corta" =>
        LET r      == llamada.args.resultados
            hayT   == "temperatura" \in DOMAIN r /\ r["temperatura"].t = "num"
            hayP   == "precipitacion" \in DOMAIN r /\ r["precipitacion"].t = "num"
            llueve == hayP /\ r["precipitacion"].n > r["precipitacion"].d
            sobre(k) == r["temperatura"].n > k * r["temperatura"].d
        IN  /\ llamada.sal.exc = ""
            /\ llamada.sal.ret =
                  (IF llueve THEN "Lluvioso"
                   ELSE IF ~hayT THEN "Desconocido"
                   ELSE IF sobre(24) THEN "Caluroso"
                   ELSE IF sobre(18) THEN "Calido"
                   ELSE IF sobre(12) THEN "Templado"
                   ELSE "Frio")

\* rain above 1.0 with no temperature at all is "Lluvioso"
C10_Testigo ==
    /\ llamada.fn = "generar_descripcion_corta"
    /\ llamada.args.resultados = [precipitacion |-> Num(Rac(11, 10))]
    /\ llamada.sal.ret = "Lluvioso"

\* C11: generar_descripcion_completa returns for every mapping; the label of
\* the temperature is "Temperatura no disponible" exactly when it is absent,
\* "Muy Frio" exactly below 5, "Frio" exactly on [5,12), "Fresco / Templado"
\* exactly on [12,18), "Calido / Agradable" exactly on [18,24) and "Caluroso"
\* exactly from 24 on; the clause of the precipitation is empty exactly when
\* it is absent or negative, "con cielo mayormente despejado." exactly on
\* [0,0.1], "con posibles lloviznas." exactly on (0.1,1], "con probabilidad de
\* lluvia." exactly on (1,5] and "con pronostico de lluvias intensas." exactly
\* above 5.
C11_DescripcionCompleta ==
    llamada.fn = "generar_descripcion_completa" =>
        LET r    == llamada.args.resultados
            hayT == "temperatura" \in DOMAIN r /\ r["temperatura"].t = "num"
            hayP == "precipitacion" \in DOMAIN r /\ r["precipitacion"].t = "num"
            \* tenths of the value times its denominator, compared as integers
            t10(k) == 10 * r["temperatura"].n - k * r["temperatura"].d
            p10(k) == 10 * r["precipitacion"].n - k * r["precipitacion"].d
            dt   == llamada.sal.ret.desc_temp
            dp   == llamada.sal.ret.desc_precip
        IN  /\ llamada.sal.exc = ""
            /\ (dt = "Temperatura no disponible") <=> ~hayT
            /\ (dt = "Muy Frio") <=> (hayT /\ t10(50) < 0)
            /\ (dt = "Frio") <=> (hayT /\ t10(50) >= 0 /\ t10(120) < 0)
            /\ (dt = "Fresco / Templado") <=> (hayT /\ t10(120) >= 0 /\ t10(180) < 0)
            /\ (dt = "Calido / Agradable") <=> (hayT /\ t10(180) >= 0 /\ t10(240) < 0)
            /\ (dt = "Caluroso") <=> (hayT /\ t10(240) >= 0)
            /\ (dp = "") <=> (~hayP \/ p10(0) < 0)
            /\ (dp = "con cielo mayormente despejado.")
                  <=> (hayP /\ p10(0) >= 0 /\ p10(1) <= 0)
            /\ (dp = "con posibles lloviznas.") <=> (hayP /\ p10(1) > 0 /\ p10(10) <= 0)
            /\ (dp = "con probabilidad de lluvia.")
                  <=> (hayP /\ p10(10) > 0 /\ p10(50) <= 0)
            /\ (dp = "con pronostico de lluvias intensas.") <=> (hayP /\ p10(50) > 0)

\* a temperature of exactly 5.0 is "Frio" and a precipitation of exactly 1.0
\* is a drizzle
C11_Testigo ==
    /\ llamada.fn = "generar_descripcion_completa"
    /\ llamada.args.resultados =
          [temperatura |-> Num(Rac(50, 10)), humedad |-> None,
           precipitacion |-> Num(Rac(10, 10))]
    /\ llamada.sal.ret.desc_temp = "Frio"
    /\ llamada.sal.ret.desc_precip = "con posibles lloviznas."
    /\ llamada.sal.ret.temp_str = ConUnDecimal(Ent(5))

-----------------------------------------------------------------------------
(* Claims about the series of a variable.                                  *)

\* the value griddata gives variable v for year anio of the query answered
ValorInterpolado(v, anio) ==
    LET reg == agente_climatico.datos[ClaveConsulta(anio)]
    IN  Griddata(reg["puntos"], reg[v], <<llamada.args.longitud, llamada.args.latitud>>)

\* C13: the series handed to the mean or the fit holds exactly the years of
\* 2015..2024 whose record exists under the key of the query, has sample
\* points and the variable, and interpolates to a number at the query's
\* coordinate; the years increase strictly, there are as many values as
\* years, value i is the number interpolated for year i (never NaN), and a
\* call that returns the mapping has built one series per variable.
C13_SerieDeAniosDefinidos ==
    EsPronostico =>
        /\ DevolvioResultados => DOMAIN llamada.sal.series = ConjVariables
        /\ \A v \in DOMAIN llamada.sal.series :
              LET serie == llamada.sal.series[v]
              IN  /\ {serie.anios[i] : i \in 1..Len(serie.anios)} = AniosDefinidos(v)
                  /\ \A i \in 1..Len(serie.anios) : serie.anios[i] \in 2015..2024
                  /\ \A i \in 1..(Len(serie.anios) - 1) : serie.anios[i] < serie.anios[i + 1]
                  /\ Len(serie.valores) = Len(serie.anios)
                  /\ \A i \in 1..Len(serie.anios) :
                        LET g == ValorInterpolado(v, serie.anios[i])
                        IN  g.tipo = "valor" /\ g.val = serie.valores[i]

\* ten years of records, the one of 2016 without temperatura: the series of
\* the temperature runs from 2015 to 2024 without 2016, the one of the
\* humidity holds the ten years
C13_Testigo ==
    /\ DevolvioResultados
    /\ llamada.sal.series["temperatura"].anios =
          <<2015, 2017, 2018, 2019, 2020, 2021, 2022, 2023, 2024>>
    /\ Len(llamada.sal.series["temperatura"].valores) = 9
    /\ llamada.sal.series["humedad"].anios =
          <<2015, 2016, 2017, 2018, 2019, 2020, 2021, 2022, 2023, 2024>>

-----------------------------------------------------------------------------
(* Claims about the routes.                                                *)

\* what pronosticar_clima gives for hour i of the day of the request
ResultadoDeHora(i) ==
    PronosticarClima(agente_climatico, llamada.args.latitude, llamada.args.longitude,
                     llamada.args.date, HorasEnPunto[i])

\* C12: daily_chart, for a date and a coordinate, calls pronosticar_clima 24
\* times, with the hours 00:00 .. 23:00 in this order, and answers with the
\* labels and three lists of 24 entries; entry i is what the call of hour i
\* gave: the temperature and the humidity as they are (None kept), the
\* precipitation with None turned into 0.
C12_GraficoDiario ==
    (llamada.fn = "daily_chart" /\ llamada.args.objeto) =>
        /\ llamada.sal.exc = ""
        /\ Len(llamada.invocadas) = 24
        /\ \A i \in 1..24 :
              /\ Len(llamada.invocadas[i]) = 5
              /\ ValorDe(SubSeq(llamada.invocadas[i], 1, 2)) = i - 1
              /\ SubSeq(llamada.invocadas[i], 3, 5) = <<":", "0", "0">>
        /\ llamada.sal.cuerpo.labels = llamada.invocadas
        /\ Len(llamada.sal.cuerpo.temperatures) = 24
        /\ Len(llamada.sal.cuerpo.humidities) = 24
        /\ Len(llamada.sal.cuerpo.precipitations) = 24
        /\ \A i \in 1..24 :
              LET r == ResultadoDeHora(i).ret
                  presente(k) == k \in DOMAIN r /\ r[k].t = "num"
              IN  /\ llamada.sal.cuerpo.temperatures[i] =
                        (IF presente("temperatura") THEN r["temperatura"] ELSE None)
                  /\ llamada.sal.cuerpo.humidities[i] =
                        (IF presente("humedad") THEN r["humedad"] ELSE None)
                  /\ llamada.sal.cuerpo.precipitations[i] =
                        (IF presente("precipitacion") THEN r["precipitacion"]
                         ELSE Num(Ent(0)))

EsRuta == llamada.fn \in {"get_climate_data", "daily_chart", "get_comparison_data"}

\* pronosticar_clima, called by the route being answered, returned the error
\* object (for daily_chart: in every one of its 24 calls)
PronosticoConError ==
    /\ EsRuta
    /\ llamada.args.objeto
    /\ IF llamada.fn = "daily_chart"
       THEN \A i \in 1..Len(HorasEnPunto) : "error" \in DOMAIN ResultadoDeHora(i).ret
       ELSE "error" \in DOMAIN PronosticarClima(agente_climatico,
                                   llamada.args.latitude, llamada.args.longitude,
                                   llamada.args.date, llamada.args.time).ret

\* the fields of an answer that carries a forecast
CamposDePronostico ==
    {"descripcion", "labels", "temperatures", "humidities", "precipitations",
     "pronostico", "temp", "precipitacion", "humedad"}

\* C14: when pronosticar_clima returns the error object to a route, the route
\* answers with a body that has an "error" field and none of the fields of a
\* forecast.
C14_ErrorLlegaAlLlamador ==
    PronosticoConError =>
        /\ llamada.sal.exc = ""
        /\ "error" \in DOMAIN llamada.sal.cuerpo
        /\ (DOMAIN llamada.sal.cuerpo) \cap CamposDePronostico = {}

-----------------------------------------------------------------------------
(* Claims about concurrent queries.                                        *)

\* C15: while the process serves, the store in memory is the one that was
\* loaded from the file, whatever the threads have done; and a query that
\* has finished in a thread, however its steps were interleaved with those of
\* the other threads, has the outcome of the same query run alone (the same
\* dict returned, or the same exception).
C15_ConsultasIndependientes ==
    fase = "servicio" =>
        /\ agente_climatico = Agente(archivo.datos)
        /\ \A h \in Hilos :
              hilos[h].pc = "fin" =>
                  LET sola == PronosticarClima(agente_climatico,
                                               hilos[h].args.latitud, hilos[h].args.longitud,
                                               hilos[h].args.fecha, hilos[h].args.hora)
                  IN  /\ hilos[h].exc = sola.exc
                      /\ hilos[h].ret = sola.ret

\* one thread has finished a query with numbers for the three variables
\* while another is in the middle of a series of its own
C15_Testigo ==
    /\ fase = "servicio"
    /\ \E h, k \in Hilos :
          /\ h # k
          /\ hilos[h].pc = "fin"
          /\ hilos[h].exc = ""
          /\ DOMAIN hilos[h].ret = ConjVariables
          /\ \A v \in ConjVariables : hilos[h].ret[v].t = "num"
          /\ hilos[k].pc = "bucle"
          /\ hilos[k].i = 2
          /\ Len(hilos[k].listas.valores) = 5

=============================================================================
